---- MODULE Spec2Model ----
(***************************************************************************)
(* A model of the jieba-rs word segmenter (src/src/lib.rs).                *)
(*                                                                         *)
(* Strings are sequences of UTF-8 bytes, exactly as Rust's &str: every     *)
(* offset of the source (byte_start, byte_end, x, y, last) is a 0-based    *)
(* byte offset here too, and code points are recovered by decoding.        *)
(* The dictionary (records) is the state after Jieba::new; every public    *)
(* operation is a call that runs cut_internal block by block over the      *)
(* splitter's items and then returns its result in out.                    *)
(***************************************************************************)
EXTENDS Integers, Sequences, FiniteSets, TLC

VARIABLES
    dict,       \* Jieba::new's reader over the lexicon: its lines and the lines read
    records,    \* Jieba.records: the (word, freq, tag) entries, in file order
    total,      \* Jieba.total: the cached sum of the frequencies
    pc,         \* "new" (inside Jieba::new's loop), "panic", "idle", "cut"
                \* (inside cut_internal's loop) or "done"
    op,         \* the public operation called
    mode,       \* tokenize's TokenizeMode
    sentence,   \* the operation's input text
    hmm,        \* the operation's hmm flag
    cutAll,     \* cut_internal's cut_all flag
    splitter,   \* cut_internal's SplitMatches iterator
    words,      \* cut_internal's words
    route,      \* cut_internal's route scratch buffer
    dag,        \* cut_internal's dag scratch buffer
    hmmCalls,   \* the texts cut_dag_hmm has passed to hmm::cut in this call
    out         \* the operation's result

vars == <<dict, records, total, pc, op, mode, sentence, hmm, cutAll, splitter,
          words, route, dag, hmmCalls, out>>

----------------------------------------------------------------------------
(* Bounds of the model *)

\* longest input sentence, in code points
MaxLen == 3
\* longest dictionary word, in code points
MaxWordLen == 2
\* largest number of dictionary entries
MaxWords == 2
\* largest frequency of a dictionary entry
MaxFreq == 2
\* longest lexicon line, in bytes
MaxLineLen == 5
\* largest number of lexicon lines
MaxLines == 2

----------------------------------------------------------------------------
(* Strings: UTF-8 byte sequences *)

\* Option<T>: None is the empty tuple and Some(x) the tuple of x.
None == <<>>
Some(x) == <<x>>
Unwrap(o) == o[1]

\* The code points inputs are built from:
\*   U+7F51 (a CJK ideograph, 3 bytes), 'a', '1', ' ' and U+FF0C (fullwidth
\*   comma, 3 bytes, neither Han-like nor whitespace).
Alphabet == {32593, 97, 49, 32, 65292}

\* The code points dictionary words are built from (split_whitespace leaves
\* no whitespace in a word).
DictAlphabet == {32593, 97}

\* UTF-8 encoding of one code point.
Utf8(cp) ==
    IF cp < 128 THEN <<cp>>
    ELSE IF cp < 2048 THEN <<192 + (cp \div 64), 128 + (cp % 64)>>
    ELSE IF cp < 65536
         THEN <<224 + (cp \div 4096), 128 + ((cp \div 64) % 64), 128 + (cp % 64)>>
         ELSE <<240 + (cp \div 262144), 128 + ((cp \div 4096) % 64),
                128 + ((cp \div 64) % 64), 128 + (cp % 64)>>

RECURSIVE Encode(_)
\* UTF-8 encoding of a sequence of code points.
Encode(cps) ==
    IF cps = <<>> THEN <<>> ELSE Utf8(Head(cps)) \o Encode(Tail(cps))

\* A continuation byte 10xxxxxx.
IsCont(b) == b >= 128 /\ b < 192

\* str::is_char_boundary for a 0-based byte offset i.
IsCharBoundary(s, i) ==
    \/ i = 0
    \/ i = Len(s)
    \/ i > 0 /\ i < Len(s) /\ ~IsCont(s[i + 1])

\* &s[lo..hi] with 0-based byte offsets.
Slice(s, lo, hi) == SubSeq(s, lo + 1, hi)

\* Number of bytes of the code point whose lead byte is b.
Width(b) == IF b < 128 THEN 1 ELSE IF b < 224 THEN 2 ELSE IF b < 240 THEN 3 ELSE 4

\* The code point that starts at byte offset i of s.
DecodeAt(s, i) ==
    LET b == s[i + 1] IN
    IF b < 128 THEN b
    ELSE IF b < 224 THEN (b - 192) * 64 + (s[i + 2] - 128)
    ELSE IF b < 240
         THEN (b - 224) * 4096 + (s[i + 2] - 128) * 64 + (s[i + 3] - 128)
         ELSE (b - 240) * 262144 + (s[i + 2] - 128) * 4096
              + (s[i + 3] - 128) * 64 + (s[i + 4] - 128)

RECURSIVE CharIndicesFrom(_, _)
CharIndicesFrom(s, i) ==
    IF i >= Len(s) THEN <<>>
    ELSE <<i>> \o CharIndicesFrom(s, i + Width(s[i + 1]))

\* s.char_indices().map(|x| x.0): the byte offsets at which code points start.
CharIndices(s) == CharIndicesFrom(s, 0)

\* s.chars().count()
CharCount(s) == Len(CharIndices(s))

\* s.chars(): the code points of s.
Chars(s) == LET ci == CharIndices(s) IN [k \in 1..Len(ci) |-> DecodeAt(s, ci[k])]

\* char::is_ascii_digit and char::is_ascii_alphanumeric
IsAsciiDigit(cp) == cp >= 48 /\ cp <= 57
IsAsciiAlphanumeric(cp) ==
    \/ IsAsciiDigit(cp)
    \/ cp >= 65 /\ cp <= 90
    \/ cp >= 97 /\ cp <= 122

RECURSIVE Reverse(_)
Reverse(s) == IF s = <<>> THEN <<>> ELSE Reverse(Tail(s)) \o <<Head(s)>>

RECURSIVE Concat(_)
\* The concatenation of a sequence of strings.
Concat(ws) == IF ws = <<>> THEN <<>> ELSE Head(ws) \o Concat(Tail(ws))

\* All sequences over S of length lo..hi.
SeqsOf(S, lo, hi) == UNION {[1..n -> S] : n \in lo..hi}

\* Input sentences.
Sentences == {Encode(cps) : cps \in SeqsOf(Alphabet, 0, MaxLen)}

----------------------------------------------------------------------------
(* Regular expressions of the text splitter *)

\* The CJK ranges of RE_HAN_DEFAULT and RE_HAN_CUT_ALL.
IsCjk(cp) ==
    \/ cp >= 13312 /\ cp <= 19903
    \/ cp >= 19968 /\ cp <= 40959
    \/ cp >= 63744 /\ cp <= 64255
    \/ cp >= 131072 /\ cp <= 173791
    \/ cp >= 173824 /\ cp <= 177983
    \/ cp >= 177984 /\ cp <= 178207
    \/ cp >= 178208 /\ cp <= 183983
    \/ cp >= 183984 /\ cp <= 191471
    \/ cp >= 194560 /\ cp <= 195103

\* The character class of RE_HAN_DEFAULT: CJK, a-zA-Z0-9 and + # & . _ %
InHanDefault(cp) ==
    IsCjk(cp) \/ IsAsciiAlphanumeric(cp) \/ cp \in {43, 35, 38, 46, 95, 37}

\* The character class of RE_HAN_CUT_ALL: CJK only.
InHanCutAll(cp) == IsCjk(cp)

\* \s of the regex crate (Unicode White_Space).
IsWhitespace(cp) ==
    \/ cp \in {9, 10, 11, 12, 13, 32, 133, 160, 5760, 8232, 8233, 8239, 8287, 12288}
    \/ cp >= 8192 /\ cp <= 8202

\* The character class of RE_SKIP_CUT_ALL: [^a-zA-Z0-9+#\n]
InSkipCutAll(cp) == ~(IsAsciiAlphanumeric(cp) \/ cp \in {43, 35, 10})

\* Membership in the class of a regex that is a character class.
InClass(re, cp) ==
    CASE re = "RE_HAN_DEFAULT" -> InHanDefault(cp)
      [] re = "RE_HAN_CUT_ALL" -> InHanCutAll(cp)
      [] re = "RE_SKIP_DEAFULT" -> IsWhitespace(cp)
      [] re = "RE_SKIP_CUT_ALL" -> InSkipCutAll(cp)

\* The two Han patterns are class+ (a maximal run), the skip patterns match
\* one code point (RE_SKIP_DEAFULT: \r\n first, as one match).
IsRun(re) == re \in {"RE_HAN_DEFAULT", "RE_HAN_CUT_ALL"}

RECURSIVE RunEnd(_, _, _)
\* The end of the maximal run of class code points that starts at i.
RunEnd(re, s, i) ==
    IF i < Len(s) /\ InClass(re, DecodeAt(s, i))
    THEN RunEnd(re, s, i + Width(s[i + 1]))
    ELSE i

\* The end of the match of re that starts at byte offset i, or i if none.
MatchEndAt(re, s, i) ==
    IF i >= Len(s) THEN i
    ELSE IF IsRun(re) THEN RunEnd(re, s, i)
    ELSE IF re = "RE_SKIP_DEAFULT" /\ DecodeAt(s, i) = 13
            /\ i + 1 < Len(s) /\ DecodeAt(s, i + 1) = 10
         THEN i + 2
    ELSE IF InClass(re, DecodeAt(s, i)) THEN i + Width(s[i + 1])
    ELSE i

RECURSIVE FindIterFrom(_, _, _)
FindIterFrom(re, s, i) ==
    IF i >= Len(s) THEN <<>>
    ELSE LET e == MatchEndAt(re, s, i) IN
         IF e > i THEN <<[start |-> i, end |-> e]>> \o FindIterFrom(re, s, e)
         ELSE FindIterFrom(re, s, i + Width(s[i + 1]))

\* Regex::find_iter: the successive non-overlapping matches, leftmost first.
FindIter(re, s) == FindIterFrom(re, s, 0)

\* Regex::is_match
IsMatch(re, s) == FindIter(re, s) /= <<>>

----------------------------------------------------------------------------
(* SplitMatches *)

\* SplitMatches::new: finder holds the matches find_iter has yet to give.
SplitMatchesNew(re, text) ==
    [text |-> text, finder |-> FindIter(re, text), last |-> 0, matched |-> None]

\* SplitNext without the arm for a match that starts where the last ended:
\* the text before every match is given as an Unmatched item.
SplitNextNoAdjacent(sp) ==
    IF sp.matched /= None
    THEN <<Some([kind |-> "Matched",
                 str |-> Slice(sp.text, Unwrap(sp.matched).start,
                               Unwrap(sp.matched).end)]),
           [sp EXCEPT !.matched = None]>>
    ELSE IF sp.finder = <<>>
    THEN IF sp.last >= Len(sp.text)
         THEN <<None, sp>>
         ELSE <<Some([kind |-> "Unmatched",
                      str |-> Slice(sp.text, sp.last, Len(sp.text))]),
                [sp EXCEPT !.last = Len(sp.text)]>>
    ELSE LET m == Head(sp.finder) IN
         <<Some([kind |-> "Unmatched", str |-> Slice(sp.text, sp.last, m.start)]),
           [sp EXCEPT !.finder = Tail(@), !.last = m.end, !.matched = Some(m)]>>

\* SplitMatches::next: <<item or None, the iterator afterwards>>.
\* An item is [kind, str]: SplitState::Matched or SplitState::Unmatched
\* with the text into_str gives.
SplitNext(sp) ==
    IF sp.matched /= None
    THEN <<Some([kind |-> "Matched",
                 str |-> Slice(sp.text, Unwrap(sp.matched).start,
                               Unwrap(sp.matched).end)]),
           [sp EXCEPT !.matched = None]>>
    ELSE IF sp.finder = <<>>
    THEN IF sp.last >= Len(sp.text)
         THEN <<None, sp>>
         ELSE <<Some([kind |-> "Unmatched",
                      str |-> Slice(sp.text, sp.last, Len(sp.text))]),
                [sp EXCEPT !.last = Len(sp.text)]>>
    ELSE LET m == Head(sp.finder) IN
         IF sp.last = m.start
         THEN <<Some([kind |-> "Matched", str |-> Slice(sp.text, m.start, m.end)]),
                [sp EXCEPT !.finder = Tail(@), !.last = m.end]>>
         ELSE <<Some([kind |-> "Unmatched",
                      str |-> Slice(sp.text, sp.last, m.start)]),
                [sp EXCEPT !.finder = Tail(@), !.last = m.end, !.matched = Some(m)]>>

RECURSIVE SplitAll(_)
\* The items a for loop over the splitter sees.
SplitAll(sp) ==
    LET r == SplitNext(sp) IN
    IF r[1] = None THEN <<>> ELSE <<Unwrap(r[1])>> \o SplitAll(r[2])

----------------------------------------------------------------------------
(* The dictionary and its two Aho-Corasick automata *)

\* Words a lexicon line can name: non-empty, without whitespace.
DictWords == {Encode(cps) : cps \in SeqsOf(DictAlphabet, 1, MaxWordLen)}

\* The tag of the i-th lexicon line: an opaque label, here one per line.
DictTag(i) == <<"n", "v", "r", "d">>[((i - 1) % 4) + 1]

RECURSIVE Before(_, _)
\* a sorts before b: shorter first, then byte by byte.
Before(a, b) ==
    IF Len(a) /= Len(b) THEN Len(a) < Len(b)
    ELSE IF a = <<>> THEN FALSE
    ELSE IF Head(a) /= Head(b) THEN Head(a) < Head(b)
    ELSE Before(Tail(a), Tail(b))

\* The records Jieba::new can build from up to max lines: one (word, freq,
\* tag) per lexicon line, no word listed twice.  The order of the lines only
\* names the entries, so the lexicons are taken with their lines sorted.
DictionariesUpTo(max) ==
    {[i \in 1..n |-> [word |-> ws[i], freq |-> fs[i], tag |-> DictTag(i)]] :
        <<n, ws, fs>> \in
            UNION {{<<m, w, f>> : w \in {x \in [1..m -> DictWords] :
                                            \A i, j \in 1..m : i < j => Before(x[i], x[j])},
                                  f \in [1..m -> 0..MaxFreq]} : m \in 1..max}}

Dictionaries == DictionariesUpTo(MaxWords)

\* The bytes lexicon lines are built from: 'a', '1' and ' '.
LineAlphabet == {97, 49, 32}

\* The lines of the lexicons Jieba::new is run on, without their line ends.
Lines == SeqsOf(LineAlphabet, 0, MaxLineLen)

\* The lexicons: up to MaxLines lines.
Lexicons == SeqsOf(Lines, 0, MaxLines)

RECURSIVE SplitWhitespaceFrom(_, _)
\* The fields of line after the pending field cur.
SplitWhitespaceFrom(line, cur) ==
    IF line = <<>> THEN (IF cur = <<>> THEN <<>> ELSE <<cur>>)
    ELSE IF IsWhitespace(Head(line))
    THEN (IF cur = <<>> THEN <<>> ELSE <<cur>>) \o SplitWhitespaceFrom(Tail(line), <<>>)
    ELSE SplitWhitespaceFrom(Tail(line), Append(cur, Head(line)))

\* buf.trim().split_whitespace().collect(): the maximal runs of bytes that are
\* not whitespace.
SplitWhitespace(line) == SplitWhitespaceFrom(line, <<>>)

RECURSIVE DigitsValue(_, _)
\* The value of a run of decimal digits after the value acc of those before,
\* or None at a byte that is no digit.  (A field of a line of MaxLineLen
\* bytes is far below usize::MAX, so the overflow error cannot arise.)
DigitsValue(ds, acc) ==
    IF ds = <<>> THEN Some(acc)
    ELSE IF ~IsAsciiDigit(Head(ds)) THEN None
    ELSE DigitsValue(Tail(ds), acc * 10 + (Head(ds) - 48))

\* x.parse::<usize>(): Some(value) for Ok and None for Err.  An optional '+'
\* and then at least one decimal digit.
ParseUsize(x) ==
    LET ds == IF x /= <<>> /\ Head(x) = 43 THEN Tail(x) ELSE x IN
    IF ds = <<>> THEN None ELSE DigitsValue(ds, 0)

RECURSIVE SumFreq(_)
\* records.iter().map(|n| n.1).sum()
SumFreq(recs) == IF recs = <<>> THEN 0 ELSE Head(recs).freq + SumFreq(Tail(recs))

\* Pattern p of the automata occurs in h at byte offset i.
OccursAt(h, i, p) ==
    LET w == records[p].word IN
    i + Len(w) <= Len(h) /\ Slice(h, i, i + Len(w)) = w

\* The patterns that occur in h at byte offset i.
PatternsAt(h, i) == {p \in 1..Len(records) : OccursAt(h, i, p)}

RECURSIVE LeftmostLongestFrom(_, _)
\* The leftmost-longest match of h that starts at byte offset i or later.
LeftmostLongestFrom(h, i) ==
    IF i >= Len(h) THEN None
    ELSE LET ps == PatternsAt(h, i) IN
         IF ps = {} THEN LeftmostLongestFrom(h, i + 1)
         ELSE LET p == CHOOSE x \in ps :
                         \A y \in ps : Len(records[y].word) <= Len(records[x].word)
              IN Some([start |-> i, end |-> i + Len(records[p].word), pattern |-> p])

\* ac_leftmost_longest.find(h): the match with the smallest start and, at
\* that start, the longest pattern.
LeftmostLongestFind(h) == LeftmostLongestFrom(h, 0)

RECURSIVE EndingAtLongest(_, _, _)
\* EndingAt with only the longest match that ends at e reported, as a search
\* that is not overlapping does.
EndingAtLongest(h, e, i) ==
    IF i >= e THEN <<>>
    ELSE LET ps == {p \in 1..Len(records) :
                        i + Len(records[p].word) = e /\ OccursAt(h, i, p)} IN
         IF ps = {} THEN EndingAtLongest(h, e, i + 1)
         ELSE <<[start |-> i, end |-> e, pattern |-> CHOOSE p \in ps : TRUE]>>

RECURSIVE EndingAt(_, _, _)
\* The matches of the standard automaton that end at byte offset e, the
\* longest (the state's own pattern) first, then those of its suffixes.
EndingAt(h, e, i) ==
    IF i >= e THEN <<>>
    ELSE LET ps == {p \in 1..Len(records) :
                        i + Len(records[p].word) = e /\ OccursAt(h, i, p)} IN
         (IF ps = {} THEN <<>>
          ELSE <<[start |-> i, end |-> e, pattern |-> CHOOSE p \in ps : TRUE]>>)
         \o EndingAt(h, e, i + 1)

RECURSIVE OverlappingFrom(_, _)
OverlappingFrom(h, e) ==
    IF e > Len(h) THEN <<>> ELSE EndingAt(h, e, 0) \o OverlappingFrom(h, e + 1)

\* ac_standard.find_overlapping_iter(h): every occurrence of every pattern,
\* reported as the scan reaches its end.
FindOverlappingIter(h) == OverlappingFrom(h, 1)

\* Jieba::exact_match_search: Some(pattern) or None.
ExactMatchSearch(haystack) ==
    LET mat == LeftmostLongestFind(haystack) IN
    IF mat /= None
    THEN IF Len(haystack) = Unwrap(mat).end THEN Some(Unwrap(mat).pattern) ELSE None
    ELSE None

----------------------------------------------------------------------------
(* f64 scores.  A finite score is a sum of terms ln(freq) - ln(total), kept *)
(* exactly as ln(p) - n * ln(total); ln(0) is -inf, and inf - inf is NaN.   *)

Fin(p, n) == [k |-> "fin", p |-> p, n |-> n]
NInf == [k |-> "ninf", p |-> 0, n |-> 0]
PInf == [k |-> "pinf", p |-> 0, n |-> 0]
NaN == [k |-> "nan", p |-> 0, n |-> 0]

\* 0.0
Zero == Fin(1, 0)

\* (x as f64).ln()
Ln(x) == IF x = 0 THEN NInf ELSE Fin(x, 0)

\* a - (self.total as f64).ln()
SubLogTotal(a) ==
    IF total = 0
    THEN (CASE a.k = "fin" -> PInf
            [] a.k = "pinf" -> PInf
            [] OTHER -> NaN)
    ELSE IF a.k = "fin" THEN Fin(a.p, a.n + 1) ELSE a

\* a + b
FAdd(a, b) ==
    CASE a.k = "nan" \/ b.k = "nan" -> NaN
      [] a.k = "fin" /\ b.k = "fin" -> Fin(a.p * b.p, a.n + b.n)
      [] a.k = "fin" -> b
      [] b.k = "fin" -> a
      [] a.k = b.k -> a
      [] OTHER -> NaN

RECURSIVE Pow(_, _)
Pow(b, e) == IF e = 0 THEN 1 ELSE b * Pow(b, e - 1)

\* f64::partial_cmp: Some of "Less", "Equal", "Greater", or None for a NaN.
FPartialCmp(a, b) ==
    CASE a.k = "nan" \/ b.k = "nan" -> None
      [] a.k = "fin" /\ b.k = "fin" ->
            LET l == a.p * Pow(total, b.n)
                r == b.p * Pow(total, a.n)
            IN Some(IF l < r THEN "Less" ELSE IF l > r THEN "Greater" ELSE "Equal")
      [] a.k = b.k -> Some("Equal")
      [] a.k = "ninf" \/ b.k = "pinf" -> Some("Less")
      [] OTHER -> Some("Greater")

\* PairCmp with the smaller end the greater of two pairs of equal score.
PairCmpSmallerEnd(x, y) ==
    LET c == FPartialCmp(x[1], y[1]) IN
    IF c = None THEN "Equal"
    ELSE IF Unwrap(c) /= "Equal" THEN Unwrap(c)
    ELSE IF x[2] < y[2] THEN "Greater" ELSE IF x[2] > y[2] THEN "Less" ELSE "Equal"

\* partial_cmp of the tuples (f64, usize), then unwrap_or(Ordering::Equal).
PairCmp(x, y) ==
    LET c == FPartialCmp(x[1], y[1]) IN
    IF c = None THEN "Equal"
    ELSE IF Unwrap(c) /= "Equal" THEN Unwrap(c)
    ELSE IF x[2] < y[2] THEN "Less" ELSE IF x[2] > y[2] THEN "Greater" ELSE "Equal"

RECURSIVE MinByFrom(_, _)
\* Iterator::min_by in the place of max_by: the first of the least.
MinByFrom(acc, rest) ==
    IF rest = <<>> THEN acc
    ELSE MinByFrom(IF PairCmp(acc, Head(rest)) = "Greater" THEN Head(rest) ELSE acc,
                   Tail(rest))

RECURSIVE MaxByFrom(_, _)
\* Iterator::max_by: a fold that keeps the accumulator only when it is
\* Greater, so the last of several equal maxima is returned.
MaxByFrom(acc, rest) ==
    IF rest = <<>> THEN acc
    ELSE MaxByFrom(IF PairCmp(acc, Head(rest)) = "Greater" THEN acc ELSE Head(rest),
                   Tail(rest))

MaxBy(items) ==
    IF items = <<>> THEN None ELSE Some(MaxByFrom(Head(items), Tail(items)))

----------------------------------------------------------------------------
(* DAG and route *)

\* Vec::resize(n, v) when n > len, as dag() and calc() call it.
GrowTo(v, n, fill) ==
    IF n > Len(v) THEN v \o [i \in 1..(n - Len(v)) |-> fill] ELSE v

RECURSIVE PushMatchesFront(_, _)
\* PushMatches with every end inserted at the front of its list.
PushMatchesFront(d, ms) ==
    IF ms = <<>> THEN d
    ELSE LET m == Head(ms) IN
         PushMatchesFront([d EXCEPT ![m.start + 1] = <<m.end>> \o @], Tail(ms))

RECURSIVE PushMatches(_, _)
\* The for loop of dag: each match's end is pushed on the list of its start.
PushMatches(d, ms) ==
    IF ms = <<>> THEN d
    ELSE LET m == Head(ms) IN
         PushMatches([d EXCEPT ![m.start + 1] = Append(@, m.end)], Tail(ms))

\* Jieba::dag: d[i + 1] is dag[i], the byte ends recorded for byte start i.
Dag(s, d) == PushMatches(GrowTo(d, Len(s), <<>>), FindOverlappingIter(s))

\* EdgePair without the score of the rest of the path, route[byte_end].0.
EdgePairLocal(s, r, byte_start, byte_end) ==
    LET wfrag == IF byte_end = Len(s) THEN Slice(s, byte_start, Len(s))
                 ELSE Slice(s, byte_start, byte_end)
        word_id == ExactMatchSearch(wfrag)
        freq == IF word_id /= None THEN records[Unwrap(word_id)].freq ELSE 1
    IN <<SubLogTotal(Ln(freq)), byte_end>>

\* The score calc gives the edge byte_start..byte_end.
EdgePair(s, r, byte_start, byte_end) ==
    LET wfrag == IF byte_end = Len(s) THEN Slice(s, byte_start, Len(s))
                 ELSE Slice(s, byte_start, byte_end)
        word_id == ExactMatchSearch(wfrag)
        freq == IF word_id /= None THEN records[Unwrap(word_id)].freq ELSE 1
    IN <<FAdd(SubLogTotal(Ln(freq)), r[byte_end + 1][1]), byte_end>>

RECURSIVE CalcLoop(_, _, _, _, _)
\* The body of calc's loop, over the remaining byte starts (high to low).
CalcLoop(s, d, r, curr, prev_byte_start) ==
    IF curr = <<>> THEN r
    ELSE LET byte_start == Head(curr)
             ends == d[byte_start + 1]
             pair == MaxBy([k \in 1..Len(ends) |->
                                EdgePair(s, r, byte_start, ends[k])])
             r2 == IF pair /= None
                   THEN [r EXCEPT ![byte_start + 1] = Unwrap(pair)]
                   ELSE [r EXCEPT ![byte_start + 1] =
                            <<FAdd(SubLogTotal(Ln(1)), r[prev_byte_start + 1][1]),
                              prev_byte_start>>]
         IN CalcLoop(s, d, r2, Tail(curr), byte_start)

\* Calc with the byte starts taken from low to high.
CalcForward(s, d, r) ==
    CalcLoop(s, d, GrowTo(r, Len(s) + 1, <<Zero, 0>>), CharIndices(s), Len(s))

\* Jieba::calc: r[i + 1] is route[i] = (score, next byte end).
Calc(s, d, r) ==
    CalcLoop(s, d, GrowTo(r, Len(s) + 1, <<Zero, 0>>), Reverse(CharIndices(s)), Len(s))

----------------------------------------------------------------------------
(* Segmentation of one block *)

\* &s[lo..hi], written in the source as &s[lo..] when hi is the length.
Frag(s, lo, hi) == IF hi < Len(s) THEN Slice(s, lo, hi) ELSE Slice(s, lo, Len(s))

\* SplitChars without the arm for the last code point (peek gives None).
SplitCharsNoLast(word) ==
    LET ci == CharIndices(word) IN
    [k \in 1..(Len(ci) - 1) |-> Slice(word, ci[k], ci[k + 1])]

\* The peekable char_indices loop: the code points of word, one word each.
SplitChars(word) ==
    LET ci == CharIndices(word) IN
    [k \in 1..Len(ci) |->
        IF k < Len(ci) THEN Slice(word, ci[k], ci[k + 1])
        ELSE Slice(word, ci[k], Len(word))]

RECURSIVE CutAllLoop(_, _, _, _)
\* The loops of cut_all_internal, over the remaining byte starts.
CutAllLoop(s, d, curr, ws) ==
    IF curr = <<>> THEN ws
    ELSE LET byte_start == Head(curr)
             ends == d[byte_start + 1]
         IN CutAllLoop(s, d, Tail(curr),
                       ws \o [k \in 1..Len(ends) |->
                                IF ends[k] = Len(s)
                                THEN Slice(s, byte_start, Len(s))
                                ELSE Slice(s, byte_start, ends[k])])

\* Jieba::cut_all_internal: the words pushed for one block, on a fresh dag.
CutAllInternal(s, ws) == CutAllLoop(s, Dag(s, <<>>), CharIndices(s), ws)

\* The step x..y of the route is one ASCII alphanumeric code point.
IsSingleAlnum(l_str) ==
    CharCount(l_str) = 1 /\ \A k \in 1..CharCount(l_str) : IsAsciiAlphanumeric(Chars(l_str)[k])

RECURSIVE NoHmmWalkNoFlush(_, _, _, _, _)
\* NoHmmWalk without the flush after the loop.
NoHmmWalkNoFlush(s, r, x, left, ws) ==
    IF x < Len(s)
    THEN LET y == r[x + 1][2]
             l_str == Frag(s, x, y)
         IN IF IsSingleAlnum(l_str)
            THEN NoHmmWalkNoFlush(s, r, y, IF left = None THEN Some(x) ELSE left, ws)
            ELSE NoHmmWalkNoFlush(s, r, y, None,
                                  (IF left /= None
                                   THEN Append(ws, Slice(s, Unwrap(left), x))
                                   ELSE ws) \o <<Frag(s, x, y)>>)
    ELSE ws

RECURSIVE NoHmmWalk(_, _, _, _, _)
\* The while loop of cut_dag_no_hmm and the flush after it.
NoHmmWalk(s, r, x, left, ws) ==
    IF x < Len(s)
    THEN LET y == r[x + 1][2]
             l_str == Frag(s, x, y)
         IN IF IsSingleAlnum(l_str)
            THEN NoHmmWalk(s, r, y, IF left = None THEN Some(x) ELSE left, ws)
            ELSE NoHmmWalk(s, r, y, None,
                           (IF left /= None
                            THEN Append(ws, Slice(s, Unwrap(left), x))
                            ELSE ws) \o <<Frag(s, x, y)>>)
    ELSE IF left /= None
         THEN Append(ws, Slice(s, Unwrap(left), Len(s)))
         ELSE ws

\* CutDagNoHmm without dag.clear() and route.clear().
CutDagNoHmmNoClear(s, ws, r, d) ==
    LET d1 == Dag(s, d)
        r1 == Calc(s, d1, r)
    IN [words |-> NoHmmWalk(s, r1, 0, None, ws), route |-> r1, dag |-> d1]

\* Jieba::cut_dag_no_hmm: the words, and the scratch buffers it leaves.
CutDagNoHmm(s, ws, r, d) ==
    LET d1 == Dag(s, d)
        r1 == Calc(s, d1, r)
    IN [words |-> NoHmmWalk(s, r1, 0, None, ws), route |-> <<>>, dag |-> <<>>]

\* The state path Viterbi decodes for a run of n code points that starts at
\* code point off of the block: a word ends after the code points in breaks
\* and after the last one, so the path is one the transition table allows
\* (B -> M | E, M -> M | E, E -> B | S, S -> B | S) and it ends in E or S.
ViterbiPath(n, off, breaks) ==
    [t \in 1..n |->
        LET first == t = 1 \/ (off + t - 1) \in breaks
            last == t = n \/ (off + t) \in breaks
        IN IF first /\ last THEN "S"
           ELSE IF first THEN "B"
           ELSE IF last THEN "E"
           ELSE "M"]

RECURSIVE HmmEmit(_, _, _, _, _, _)
\* The words of a decoded path: E closes the span opened by the last B, S is
\* a word of its own, and a tail no E or S closes is emitted as it is.
HmmEmit(word, path, t, begin, next, ws) ==
    LET ci == CharIndices(word) IN
    IF t > Len(ci)
    THEN IF next < Len(word) THEN Append(ws, Slice(word, next, Len(word))) ELSE ws
    ELSE LET curr == ci[t]
             after == IF t < Len(ci) THEN ci[t + 1] ELSE Len(word)
         IN CASE path[t] = "B" -> HmmEmit(word, path, t + 1, curr, next, ws)
              [] path[t] = "M" -> HmmEmit(word, path, t + 1, begin, next, ws)
              [] path[t] = "E" ->
                    HmmEmit(word, path, t + 1, begin, after,
                            Append(ws, Slice(word, begin, after)))
              [] path[t] = "S" ->
                    HmmEmit(word, path, t + 1, begin, after,
                            Append(ws, Slice(word, curr, after)))

\* hmm::cut and hmm::cut_with_allocated_memory on a run of the block.
HmmCut(word, off, breaks, ws) ==
    HmmEmit(word, ViterbiPath(CharCount(word), off, breaks), 1, 0, 0, ws)

\* The flush of cut_dag_hmm for the pending run word = &s[byte_start..].
HmmFlush(s, byte_start, word, breaks, ws) ==
    IF CharCount(word) = 1 THEN Append(ws, word)
    ELSE IF ExactMatchSearch(word) = None
    THEN HmmCut(word, CharCount(Slice(s, 0, byte_start)), breaks, ws)
    ELSE ws \o SplitChars(word)

RECURSIVE HmmWalk(_, _, _, _, _, _)
\* The while loop of cut_dag_hmm and the flush after it.
HmmWalk(s, r, x, left, breaks, ws) ==
    IF x < Len(s)
    THEN LET y == r[x + 1][2] IN
         IF CharCount(Slice(s, x, y)) = 1
         THEN HmmWalk(s, r, y, IF left = None THEN Some(x) ELSE left, breaks, ws)
         ELSE HmmWalk(s, r, y, None, breaks,
                      (IF left /= None
                       THEN HmmFlush(s, Unwrap(left), Frag(s, Unwrap(left), x),
                                     breaks, ws)
                       ELSE ws) \o <<Frag(s, x, y)>>)
    ELSE IF left /= None
         THEN HmmFlush(s, Unwrap(left), Slice(s, Unwrap(left), Len(s)), breaks, ws)
         ELSE ws

\* The flush of cut_dag_hmm for the pending run word, as hmm sees it: the
\* run is passed to hmm::cut or hmm::cut_with_allocated_memory, or it is not.
HmmFlushCalls(word, calls) ==
    IF CharCount(word) = 1 THEN calls
    ELSE IF ExactMatchSearch(word) = None THEN Append(calls, word)
    ELSE calls

RECURSIVE HmmWalkCalls(_, _, _, _, _)
\* The while loop of cut_dag_hmm and the flush after it, as hmm sees them:
\* the texts passed to it, in order.
HmmWalkCalls(s, r, x, left, calls) ==
    IF x < Len(s)
    THEN LET y == r[x + 1][2] IN
         IF CharCount(Slice(s, x, y)) = 1
         THEN HmmWalkCalls(s, r, y, IF left = None THEN Some(x) ELSE left, calls)
         ELSE HmmWalkCalls(s, r, y, None,
                           IF left /= None
                           THEN HmmFlushCalls(Frag(s, Unwrap(left), x), calls)
                           ELSE calls)
    ELSE IF left /= None
         THEN HmmFlushCalls(Slice(s, Unwrap(left), Len(s)), calls)
         ELSE calls

\* Jieba::cut_dag_hmm: the words, the texts it passed to hmm, and the scratch
\* buffers it leaves.
CutDagHmm(s, ws, r, d, breaks) ==
    LET d1 == Dag(s, d)
        r1 == Calc(s, d1, r)
    IN [words |-> HmmWalk(s, r1, 0, None, breaks, ws),
        calls |-> HmmWalkCalls(s, r1, 0, None, <<>>),
        route |-> <<>>, dag |-> <<>>]

RECURSIVE SkipLoop(_, _, _, _)
\* The loop of cut_internal over the skip splitter's items.
SkipLoop(re_skip, cut_all, items, ws) ==
    IF items = <<>> THEN ws
    ELSE LET word == Head(items).str IN
         SkipLoop(re_skip, cut_all, Tail(items),
                  IF word = <<>> THEN ws
                  ELSE IF cut_all \/ IsMatch(re_skip, word) THEN Append(ws, word)
                  ELSE ws \o SplitChars(word))

\* The SplitState::Unmatched arm of cut_internal.
CutUnmatched(block, cut_all, ws) ==
    LET re_skip == IF cut_all THEN "RE_SKIP_CUT_ALL" ELSE "RE_SKIP_DEAFULT" IN
    SkipLoop(re_skip, cut_all, SplitAll(SplitMatchesNew(re_skip, block)), ws)

----------------------------------------------------------------------------
(* What the public operations do with the words of cut *)

\* The 2-grams (n = 2) or 3-grams (n = 3) of word that exact_match_search
\* finds, as the for loop over i pushes them: [word, i].
Grams(word, n) ==
    LET char_indices == CharIndices(word)
        char_count == Len(char_indices)
        gram(i) == IF i + n < char_count
                   THEN Slice(word, char_indices[i + 1], char_indices[i + n + 1])
                   ELSE Slice(word, char_indices[i + 1], Len(word))
    IN SelectSeq([k \in 1..(char_count - (n - 1)) |-> [word |-> gram(k - 1), i |-> k - 1]],
                 LAMBDA g : ExactMatchSearch(g.word) /= None)

\* SearchWords with the thresholds >= 2 and >= 3 in the place of > 2 and > 3.
SearchWordsInclusive(word) ==
    LET char_count == CharCount(word)
        g2 == IF char_count >= 2 THEN Grams(word, 2) ELSE <<>>
        g3 == IF char_count >= 3 THEN Grams(word, 3) ELSE <<>>
    IN [k \in 1..Len(g2) |-> g2[k].word] \o [k \in 1..Len(g3) |-> g3[k].word]
       \o <<word>>

\* The words cut_for_search pushes for one word of cut.
SearchWords(word) ==
    LET char_count == CharCount(word)
        g2 == IF char_count > 2 THEN Grams(word, 2) ELSE <<>>
        g3 == IF char_count > 3 THEN Grams(word, 3) ELSE <<>>
    IN [k \in 1..Len(g2) |-> g2[k].word] \o [k \in 1..Len(g3) |-> g3[k].word]
       \o <<word>>

RECURSIVE CutForSearchLoop(_, _)
\* Jieba::cut_for_search, after cut.
CutForSearchLoop(ws, new_words) ==
    IF ws = <<>> THEN new_words
    ELSE CutForSearchLoop(Tail(ws), new_words \o SearchWords(Head(ws)))

Token(word, start, end) == [word |-> word, start |-> start, end |-> end]

\* The tokens tokenize pushes in Search mode for one word of cut.
SearchTokens(word, start) ==
    LET width == CharCount(word)
        g2 == IF width > 2 THEN Grams(word, 2) ELSE <<>>
        g3 == IF width > 2 /\ width > 3 THEN Grams(word, 3) ELSE <<>>
    IN [k \in 1..Len(g2) |-> Token(g2[k].word, start + g2[k].i, start + g2[k].i + 2)]
       \o [k \in 1..Len(g3) |-> Token(g3[k].word, start + g3[k].i, start + g3[k].i + 3)]
       \o <<Token(word, start, start + width)>>

RECURSIVE TokenizeLoopBytes(_, _, _, _)
\* TokenizeLoop with start advanced by the word's byte length.
TokenizeLoopBytes(ws, m, start, tokens) ==
    IF ws = <<>> THEN tokens
    ELSE LET word == Head(ws)
             width == CharCount(word)
         IN TokenizeLoopBytes(Tail(ws), m, start + Len(word),
                              IF m = "Default"
                              THEN Append(tokens, Token(word, start, start + width))
                              ELSE tokens \o SearchTokens(word, start))

RECURSIVE TokenizeLoop(_, _, _, _)
\* Jieba::tokenize, after cut.
TokenizeLoop(ws, m, start, tokens) ==
    IF ws = <<>> THEN tokens
    ELSE LET word == Head(ws)
             width == CharCount(word)
         IN TokenizeLoop(Tail(ws), m, start + width,
                         IF m = "Default"
                         THEN Append(tokens, Token(word, start, start + width))
                         ELSE tokens \o SearchTokens(word, start))

\* The closure of Jieba::tag: the tag of one word of cut.
TagOf(word) ==
    LET word_id == ExactMatchSearch(word) IN
    IF word_id /= None THEN records[Unwrap(word_id)].tag
    ELSE LET cs == Chars(word)
             eng == Cardinality({k \in 1..Len(cs) : IsAsciiAlphanumeric(cs[k])})
             m == Cardinality({k \in 1..Len(cs) :
                                 IsAsciiAlphanumeric(cs[k]) /\ IsAsciiDigit(cs[k])})
         IN IF eng = 0 THEN "x" ELSE IF eng = m THEN "m" ELSE "eng"

\* Jieba::tag, after cut.
TagWords(ws) == [k \in 1..Len(ws) |-> [word |-> ws[k], tag |-> TagOf(ws[k])]]

----------------------------------------------------------------------------
(* The state machine *)

\* The state after Jieba::new has built one of the dictionaries ds.
InitWith(ds) ==
    /\ dict = [lines |-> <<>>, pos |-> 0]
    /\ records \in ds
    /\ total = SumFreq(records)
    /\ pc = "idle"
    /\ op = "new"
    /\ mode = "Default"
    /\ sentence = <<>>
    /\ hmm = FALSE
    /\ cutAll = FALSE
    /\ splitter = SplitMatchesNew("RE_HAN_DEFAULT", <<>>)
    /\ words = <<>>
    /\ route = <<>>
    /\ dag = <<>>
    /\ hmmCalls = <<>>
    /\ out = <<>>

\* The state after Jieba::new.
Init == InitWith(Dictionaries)

\* The state after Jieba::new for the runs of calc alone, which are short:
\* the dictionary may hold one entry more.
InitCalc == InitWith(DictionariesUpTo(MaxWords + 1))

\* Jieba::new starts to read a lexicon.
InitNew ==
    /\ dict \in {[lines |-> l, pos |-> 0] : l \in Lexicons}
    /\ records = <<>>
    /\ total = 0
    /\ pc = "new"
    /\ op = "new"
    /\ mode = "Default"
    /\ sentence = <<>>
    /\ hmm = FALSE
    /\ cutAll = FALSE
    /\ splitter = SplitMatchesNew("RE_HAN_DEFAULT", <<>>)
    /\ words = <<>>
    /\ route = <<>>
    /\ dag = <<>>
    /\ hmmCalls = <<>>
    /\ out = <<>>

\* One iteration of Jieba::new's while loop: read_line gives the next line;
\* an empty line is skipped, unwrap panics on a frequency that does not
\* parse, and any other line pushes its record.
ReadLine ==
    /\ pc = "new" /\ dict.pos < Len(dict.lines)
    /\ dict' = [dict EXCEPT !.pos = @ + 1]
    /\ LET buf == dict.lines[dict.pos + 1]
           parts == SplitWhitespace(buf)
       IN IF parts = <<>>
          THEN UNCHANGED <<records, pc>>
          ELSE IF Len(parts) >= 2 /\ ParseUsize(parts[2]) = None
          THEN pc' = "panic" /\ UNCHANGED records
          ELSE /\ records' = Append(records,
                     [word |-> parts[1],
                      freq |-> IF Len(parts) >= 2 THEN Unwrap(ParseUsize(parts[2])) ELSE 0,
                      tag |-> IF Len(parts) >= 3 THEN parts[3] ELSE <<>>])
               /\ pc' = pc
    /\ UNCHANGED <<total, op, mode, sentence, hmm, cutAll, splitter, words, route,
                   dag, hmmCalls, out>>

\* read_line gives 0: Jieba::new sums the frequencies, builds the automata
\* over the words of records and returns the Jieba.
NewReturn ==
    /\ pc = "new" /\ dict.pos = Len(dict.lines)
    /\ total' = SumFreq(records)
    /\ pc' = "idle"
    /\ UNCHANGED <<dict, records, op, mode, sentence, hmm, cutAll, splitter, words,
                   route, dag, hmmCalls, out>>

\* Runs of Jieba::new.
NextNew == ReadLine \/ NewReturn

SpecNew == InitNew /\ [][NextNew]_vars

\* The head of cut_internal, entered from the public operation o.
CutInternalEnter(o, m, s, cut_all, h) ==
    /\ pc = "idle"
    /\ pc' = "cut"
    /\ op' = o
    /\ mode' = m
    /\ sentence' = s
    /\ hmm' = h
    /\ cutAll' = cut_all
    /\ splitter' = SplitMatchesNew(IF cut_all THEN "RE_HAN_CUT_ALL"
                                   ELSE "RE_HAN_DEFAULT", s)
    /\ words' = <<>>
    /\ route' = <<>>
    /\ dag' = <<>>
    /\ hmmCalls' = <<>>
    /\ out' = <<>>
    /\ UNCHANGED <<dict, records, total>>

\* Jieba::cut is called.
Cut ==
    /\ pc = "idle"
    /\ \E s \in Sentences, h \in BOOLEAN :
          CutInternalEnter("cut", "Default", s, FALSE, h)

\* Jieba::cut_all is called.
CutAll ==
    /\ pc = "idle"
    /\ \E s \in Sentences : CutInternalEnter("cut_all", "Default", s, TRUE, FALSE)

\* Jieba::cut_for_search is called.
CutForSearch ==
    /\ pc = "idle"
    /\ \E s \in Sentences, h \in BOOLEAN :
          CutInternalEnter("cut_for_search", "Default", s, FALSE, h)

\* Jieba::tokenize is called with TokenizeMode::Default.
TokenizeDefault ==
    /\ pc = "idle"
    /\ \E s \in Sentences, h \in BOOLEAN :
          CutInternalEnter("tokenize", "Default", s, FALSE, h)

\* Jieba::tokenize is called with TokenizeMode::Search.
TokenizeSearch ==
    /\ pc = "idle"
    /\ \E s \in Sentences, h \in BOOLEAN :
          CutInternalEnter("tokenize", "Search", s, FALSE, h)

\* Jieba::tag is called.
Tag ==
    /\ pc = "idle"
    /\ \E s \in Sentences, h \in BOOLEAN :
          CutInternalEnter("tag", "Default", s, FALSE, h)

\* The item the for loop of cut_internal takes next.
NextItem == SplitNext(splitter)[1]

\* One iteration of cut_internal's loop: a Matched block, cut_all.
BlockCutAll ==
    /\ pc = "cut" /\ NextItem /= None
    /\ Unwrap(NextItem).kind = "Matched" /\ cutAll
    /\ splitter' = SplitNext(splitter)[2]
    /\ words' = CutAllInternal(Unwrap(NextItem).str, words)
    /\ UNCHANGED <<dict, records, total, pc, op, mode, sentence, hmm, cutAll, route,
                   dag, hmmCalls, out>>

\* One iteration of cut_internal's loop: a Matched block, hmm.
BlockCutDagHmm ==
    /\ pc = "cut" /\ NextItem /= None
    /\ Unwrap(NextItem).kind = "Matched" /\ ~cutAll /\ hmm
    /\ splitter' = SplitNext(splitter)[2]
    /\ \E breaks \in SUBSET (1..(CharCount(Unwrap(NextItem).str) - 1)) :
          LET res == CutDagHmm(Unwrap(NextItem).str, words, route, dag, breaks) IN
          /\ words' = res.words
          /\ route' = res.route
          /\ dag' = res.dag
          /\ hmmCalls' = hmmCalls \o res.calls
    /\ UNCHANGED <<dict, records, total, pc, op, mode, sentence, hmm, cutAll, out>>

\* One iteration of cut_internal's loop: a Matched block, no hmm.
BlockCutDagNoHmm ==
    /\ pc = "cut" /\ NextItem /= None
    /\ Unwrap(NextItem).kind = "Matched" /\ ~cutAll /\ ~hmm
    /\ splitter' = SplitNext(splitter)[2]
    /\ LET res == CutDagNoHmm(Unwrap(NextItem).str, words, route, dag) IN
          /\ words' = res.words
          /\ route' = res.route
          /\ dag' = res.dag
    /\ UNCHANGED <<dict, records, total, pc, op, mode, sentence, hmm, cutAll,
                   hmmCalls, out>>

\* One iteration of cut_internal's loop: an Unmatched block.
BlockUnmatched ==
    /\ pc = "cut" /\ NextItem /= None
    /\ Unwrap(NextItem).kind = "Unmatched"
    /\ splitter' = SplitNext(splitter)[2]
    /\ words' = CutUnmatched(Unwrap(NextItem).str, cutAll, words)
    /\ UNCHANGED <<dict, records, total, pc, op, mode, sentence, hmm, cutAll, route,
                   dag, hmmCalls, out>>

\* cut_internal returns words to the operation, which returns r.
Return(o, r) ==
    /\ pc = "cut" /\ NextItem = None /\ op = o
    /\ pc' = "done"
    /\ out' = r
    /\ UNCHANGED <<dict, records, total, op, mode, sentence, hmm, cutAll, splitter,
                   words, route, dag, hmmCalls>>

ReturnCut == Return("cut", words)

ReturnCutAll == Return("cut_all", words)

ReturnCutForSearch == Return("cut_for_search", CutForSearchLoop(words, <<>>))

ReturnTokenize == Return("tokenize", TokenizeLoop(words, mode, 0, <<>>))

ReturnTag == Return("tag", TagWords(words))

\* Jieba::exact_match_search is called on a non-empty haystack.
ExactMatch ==
    /\ pc = "idle"
    /\ \E w \in Sentences \ {<<>>} :
        /\ pc' = "done"
        /\ op' = "exact_match_search"
        /\ sentence' = w
        /\ out' = ExactMatchSearch(w)
        /\ mode' = "Default" /\ hmm' = FALSE /\ cutAll' = FALSE
        /\ words' = <<>> /\ route' = <<>> /\ dag' = <<>> /\ hmmCalls' = <<>>
        /\ splitter' = SplitMatchesNew("RE_HAN_DEFAULT", <<>>)
        /\ UNCHANGED <<dict, records, total>>

\* Jieba::dag is called on a non-empty text with an empty DAG buffer.
DagCall ==
    /\ pc = "idle"
    /\ \E s \in Sentences \ {<<>>} :
        /\ pc' = "done"
        /\ op' = "dag"
        /\ sentence' = s
        /\ dag' = Dag(s, <<>>)
        /\ mode' = "Default" /\ hmm' = FALSE /\ cutAll' = FALSE
        /\ words' = <<>> /\ route' = <<>> /\ out' = <<>> /\ hmmCalls' = <<>>
        /\ splitter' = SplitMatchesNew("RE_HAN_DEFAULT", <<>>)
        /\ UNCHANGED <<dict, records, total>>

\* The texts cut_internal hands to cut_dag_no_hmm and cut_dag_hmm: the
\* Matched items of the default splitter.
Blocks ==
    {s \in Sentences \ {<<>>} :
        SplitAll(SplitMatchesNew("RE_HAN_DEFAULT", s)) = <<[kind |-> "Matched", str |-> s]>>}

\* Jieba::dag and then Jieba::calc are called on a block with empty buffers,
\* as cut_dag_no_hmm and cut_dag_hmm do before they walk the route.
CalcCall ==
    /\ pc = "idle"
    /\ \E s \in Blocks :
        /\ pc' = "done"
        /\ op' = "calc"
        /\ sentence' = s
        /\ dag' = Dag(s, <<>>)
        /\ route' = Calc(s, Dag(s, <<>>), <<>>)
        /\ mode' = "Default" /\ hmm' = FALSE /\ cutAll' = FALSE
        /\ words' = <<>> /\ out' = <<>> /\ hmmCalls' = <<>>
        /\ splitter' = SplitMatchesNew("RE_HAN_DEFAULT", <<>>)
        /\ UNCHANGED <<dict, records, total>>

\* The regular expressions cut_internal builds its splitters from.
Regexes == {"RE_HAN_DEFAULT", "RE_SKIP_DEAFULT", "RE_HAN_CUT_ALL", "RE_SKIP_CUT_ALL"}

\* SplitMatches::new(re, text) is called, for a loop over the splitter.
SplitMatchesCall ==
    /\ pc = "idle"
    /\ \E re \in Regexes, s \in Sentences :
        /\ pc' = "split"
        /\ op' = "split"
        /\ sentence' = s
        /\ splitter' = SplitMatchesNew(re, s)
        /\ mode' = "Default" /\ hmm' = FALSE /\ cutAll' = FALSE
        /\ words' = <<>> /\ route' = <<>> /\ dag' = <<>> /\ hmmCalls' = <<>>
        /\ out' = <<>>
        /\ UNCHANGED <<dict, records, total>>

\* One iteration of the loop: SplitMatches::next gives an item.
SplitMatchesNext ==
    /\ pc = "split" /\ NextItem /= None
    /\ splitter' = SplitNext(splitter)[2]
    /\ out' = Append(out, Unwrap(NextItem))
    /\ UNCHANGED <<dict, records, total, pc, op, mode, sentence, hmm, cutAll, words,
                   route, dag, hmmCalls>>

\* SplitMatches::next gives None: the loop ends.
SplitMatchesEnd ==
    /\ pc = "split" /\ NextItem = None
    /\ pc' = "done"
    /\ UNCHANGED <<dict, records, total, op, mode, sentence, hmm, cutAll, splitter,
                   words, route, dag, hmmCalls, out>>

\* The caller drops the result; the dictionary is ready for the next call.
Drop ==
    /\ pc = "done"
    /\ pc' = "idle"
    /\ op' = "new"
    /\ mode' = "Default"
    /\ sentence' = <<>>
    /\ hmm' = FALSE
    /\ cutAll' = FALSE
    /\ splitter' = SplitMatchesNew("RE_HAN_DEFAULT", <<>>)
    /\ words' = <<>>
    /\ route' = <<>>
    /\ dag' = <<>>
    /\ hmmCalls' = <<>>
    /\ out' = <<>>
    /\ UNCHANGED <<dict, records, total>>

\* The iterations of cut_internal's loop when cut_all is false.
BlockCut == BlockCutDagHmm \/ BlockCutDagNoHmm \/ BlockUnmatched

\* Calls of cut.
NextCut == Cut \/ BlockCut \/ ReturnCut \/ Drop

SpecCut == Init /\ [][NextCut]_vars

\* Calls of cut_all.
NextCutAll == CutAll \/ BlockCutAll \/ BlockUnmatched \/ ReturnCutAll \/ Drop

SpecCutAll == Init /\ [][NextCutAll]_vars

\* Calls of cut_for_search.
NextCutForSearch == CutForSearch \/ BlockCut \/ ReturnCutForSearch \/ Drop

SpecCutForSearch == Init /\ [][NextCutForSearch]_vars

\* Calls of tokenize in default mode.
NextTokenizeDefault == TokenizeDefault \/ BlockCut \/ ReturnTokenize \/ Drop

SpecTokenizeDefault == Init /\ [][NextTokenizeDefault]_vars

\* Calls of tokenize in search mode.
NextTokenizeSearch == TokenizeSearch \/ BlockCut \/ ReturnTokenize \/ Drop

SpecTokenizeSearch == Init /\ [][NextTokenizeSearch]_vars

\* Calls of tag.
NextTag == Tag \/ BlockCut \/ ReturnTag \/ Drop

SpecTag == Init /\ [][NextTag]_vars

\* Calls of cut_for_search and of tokenize in search mode.
NextSearch ==
    \/ CutForSearch \/ TokenizeSearch \/ BlockCut
    \/ ReturnCutForSearch \/ ReturnTokenize \/ Drop

SpecSearch == Init /\ [][NextSearch]_vars

\* Calls of exact_match_search.
NextExactMatch == ExactMatch \/ Drop

SpecExactMatch == Init /\ [][NextExactMatch]_vars

\* Calls of dag.
NextDag == DagCall \/ Drop

SpecDag == Init /\ [][NextDag]_vars

\* Calls of dag and calc.
NextCalc == CalcCall \/ Drop

SpecCalc == InitCalc /\ [][NextCalc]_vars

\* Loops over a splitter.
NextSplit == SplitMatchesCall \/ SplitMatchesNext \/ SplitMatchesEnd \/ Drop

SpecSplit == Init /\ [][NextSplit]_vars

\* Every operation.
Next ==
    \/ NextCut \/ NextCutAll \/ NextSearch \/ NextTokenizeDefault \/ NextTag
    \/ NextExactMatch \/ NextNew \/ NextDag \/ NextCalc
    \/ NextSplit

Spec == Init /\ [][Next]_vars

----------------------------------------------------------------------------
(* Properties *)

\* w is the word of a dictionary entry.
IsWord(w) == \E i \in 1..Len(records) : records[i].word = w

\* The entry of the dictionary word w.
EntryOf(w) == records[CHOOSE i \in 1..Len(records) : records[i].word = w]

\* The operation o has returned.
Done(o) == pc = "done" /\ op = o

\* C1: the words cut returns, concatenated in order, are the input, whatever
\* the hmm flag and the mix of Han-like blocks, other blocks and skip matches.
C1_CutConcatenation == Done("cut") => Concat(out) = sentence

\* C1 witness: cut with hmm has returned the words of an input that holds a
\* Han-like block, a whitespace (skip) match and a code point of neither kind.
C1_Witness ==
    /\ Done("cut") /\ hmm
    /\ \E i, j, k \in 1..CharCount(sentence) :
          /\ InHanDefault(Chars(sentence)[i])
          /\ IsWhitespace(Chars(sentence)[j])
          /\ ~InHanDefault(Chars(sentence)[k]) /\ ~IsWhitespace(Chars(sentence)[k])
    /\ Len(out) = 3
    /\ Concat(out) = sentence

\* C2: exact_match_search(w) is Some(id) exactly when w is a dictionary word,
\* and then records[id] is the entry of w.
C2_ExactMembership ==
    Done("exact_match_search") =>
        /\ (out /= None) <=> IsWord(sentence)
        /\ out /= None => records[Unwrap(out)].word = sentence

\* Every code point of s is in the class of RE_HAN_DEFAULT: a non-empty s is
\* one Han-like block of the default splitter.
OneHanBlock(s) ==
    /\ s /= <<>>
    /\ \A k \in 1..CharCount(s) : InHanDefault(Chars(s)[k])

\* C3 as stated: cut(w, false) of a dictionary word w that is one Han-like
\* block is [w], whatever the frequencies.
C3_DictionaryWordIsOneWord ==
    (Done("cut") /\ ~hmm /\ IsWord(sentence) /\ OneHanBlock(sentence))
        => out = <<sentence>>

\* The ends of the steps a path through s can take from byte offset i: the
\* ends of the dictionary words that start at i or, when there is none, the
\* next code point boundary.
StepsFrom(s, i) ==
    LET ends == {e \in (i + 1)..Len(s) : IsWord(Slice(s, i, e))} IN
    IF ends /= {} THEN ends ELSE {i + Width(s[i + 1])}

RECURSIVE PathsFrom(_, _)
\* The paths from byte offset i to the end of s, as sequences of offsets.
PathsFrom(s, i) ==
    IF i >= Len(s) THEN {<<i>>}
    ELSE UNION {{<<i>> \o p : p \in PathsFrom(s, e)} : e \in StepsFrom(s, i)}

RECURSIVE PathScore(_, _)
\* The sum over the steps of a path of ln(freq) - ln(total), freq being the
\* frequency of a dictionary word and 1 for any other step.
PathScore(s, path) ==
    IF Len(path) < 2 THEN Zero
    ELSE LET w == Slice(s, path[1], path[2])
             freq == IF IsWord(w) THEN EntryOf(w).freq ELSE 1
         IN FAdd(SubLogTotal(Ln(freq)), PathScore(s, Tail(path)))

\* No path through s scores strictly higher than the single step over s.
WholeIsBest(s) ==
    \A path \in PathsFrom(s, 0) :
        FPartialCmp(PathScore(s, path), PathScore(s, <<0, Len(s)>>)) /= Some("Greater")

\* C3 amended: cut(w, false) of a dictionary word w that is one Han-like
\* block is [w] when no other path through w scores strictly higher than w.
C3_BestDictionaryWordIsOneWord ==
    (Done("cut") /\ ~hmm /\ IsWord(sentence) /\ OneHanBlock(sentence)
        /\ WholeIsBest(sentence))
        => out = <<sentence>>

\* C3 witness: cut(w, false) has returned [w] for a dictionary word w that
\* other paths go through (a proper prefix of w is a dictionary word too) and
\* that has no ASCII alphanumeric, so that [w] is the route's single step.
C3_Witness ==
    /\ Done("cut") /\ ~hmm /\ IsWord(sentence) /\ OneHanBlock(sentence)
    /\ WholeIsBest(sentence)
    /\ Cardinality(PathsFrom(sentence, 0)) > 1
    /\ \A k \in 1..CharCount(sentence) : ~IsAsciiAlphanumeric(Chars(sentence)[k])
    /\ out = <<sentence>>

\* The words of a search-mode result: of cut_for_search, the result itself,
\* and of tokenize, the words of its tokens.
OutWords == IF op = "tokenize" THEN [k \in 1..Len(out) |-> out[k].word] ELSE out

\* The first position of w in the sequence o, or 0.
FirstIndex(o, w) ==
    IF \E j \in 1..Len(o) : o[j] = w
    THEN CHOOSE j \in 1..Len(o) : o[j] = w /\ \A i \in 1..(j - 1) : o[i] /= w
    ELSE 0

RECURSIVE Segments(_, _)
\* The search-mode result o cut into one segment per word of ws: the extras
\* emitted for the word (all shorter than it) and then the word.  A result
\* that is not of this shape gives a segment that does not end in its word.
Segments(o, ws) ==
    IF ws = <<>> THEN (IF o = <<>> THEN <<>> ELSE <<o>>)
    ELSE LET j == FirstIndex(o, Head(ws)) IN
         IF j = 0 THEN <<o>>
         ELSE <<SubSeq(o, 1, j)>> \o Segments(SubSeq(o, j + 1, Len(o)), Tail(ws))

\* The search-mode result is, word by word of cut, some extras and the word.
Aligned ==
    LET segs == Segments(OutWords, words) IN
    /\ Len(segs) = Len(words)
    /\ \A k \in 1..Len(segs) : segs[k] /= <<>> /\ segs[k][Len(segs[k])] = words[k]

\* The extras emitted for the k-th word of cut.
Extras(k) == LET seg == Segments(OutWords, words)[k] IN SubSeq(seg, 1, Len(seg) - 1)

\* A search-mode operation has returned.
SearchDone == Done("cut_for_search") \/ (Done("tokenize") /\ mode = "Search")

\* C4: every extra n-gram a search-mode operation emits is a dictionary word.
C4_ExtrasAreWords ==
    SearchDone =>
        /\ Aligned
        /\ \A k \in 1..Len(words) :
              \A j \in 1..Len(Extras(k)) : IsWord(Extras(k)[j])

\* The n-code-point substrings of w that are dictionary words, by ascending
\* start.
WordGrams(w, n) ==
    LET cps == Chars(w)
        all == [i \in 1..(Len(cps) - n + 1) |-> Encode(SubSeq(cps, i, i + n - 1))]
    IN SelectSeq(all, IsWord)

RECURSIVE SearchExpected(_)
\* What C5 says cut_for_search emits for the words ws of cut.
SearchExpected(ws) ==
    IF ws = <<>> THEN <<>>
    ELSE LET w == Head(ws)
             n == CharCount(w)
         IN (IF n > 2 THEN WordGrams(w, 2) ELSE <<>>)
            \o (IF n > 3 THEN WordGrams(w, 3) ELSE <<>>)
            \o <<w>> \o SearchExpected(Tail(ws))

\* C5: cut_for_search emits, for each word of cut in order, its 2-code-point
\* substrings that are dictionary words (if it has more than 2 code points),
\* then its 3-code-point ones (if it has more than 3), then the word.
C5_SearchOutput == Done("cut_for_search") => out = SearchExpected(words)

\* C6 as stated: in search mode a word of cut with exactly 2 or 3 code points
\* gets no extras.
C6_NoExtrasFor2And3 ==
    SearchDone =>
        /\ Aligned
        /\ \A k \in 1..Len(words) :
              CharCount(words[k]) \in {2, 3} => Extras(k) = <<>>

\* C6 amended: in search mode a word of cut with exactly 2 code points gets no
\* extras, and the extras of a word with exactly 3 code points all have 2
\* code points.
C6_NoExtrasFor2No3GramsFor3 ==
    SearchDone =>
        /\ Aligned
        /\ \A k \in 1..Len(words) :
              /\ CharCount(words[k]) = 2 => Extras(k) = <<>>
              /\ CharCount(words[k]) = 3 =>
                    \A j \in 1..Len(Extras(k)) : CharCount(Extras(k)[j]) = 2

\* C6 witness: a search-mode operation has returned a word of 3 code points
\* after its extras, 2-code-point substrings that are dictionary words.
C6_Witness ==
    /\ SearchDone /\ Aligned
    /\ \E k \in 1..Len(words) :
          /\ CharCount(words[k]) = 3 /\ Extras(k) /= <<>>
          /\ \A j \in 1..Len(Extras(k)) :
                CharCount(Extras(k)[j]) = 2 /\ IsWord(Extras(k)[j])

\* C7: the tokens of tokenize in default mode tile the code points of the
\* input: the first starts at 0, each is as wide as its word, each starts
\* where the one before ends, and the last ends at the code point count.
C7_TokensContiguous ==
    (Done("tokenize") /\ mode = "Default") =>
        /\ out = <<>> => sentence = <<>>
        /\ out /= <<>> => out[1].start = 0 /\ out[Len(out)].end = CharCount(sentence)
        /\ \A k \in 1..Len(out) : out[k].end - out[k].start = CharCount(out[k].word)
        /\ \A k \in 1..(Len(out) - 1) : out[k].end = out[k + 1].start

\* C7 witness: tokenize in default mode has returned two or more tokens, one
\* of them a word of several bytes per code point.
C7_Witness ==
    /\ Done("tokenize") /\ mode = "Default"
    /\ Len(out) >= 2
    /\ \E k \in 1..Len(out) : Len(out[k].word) > CharCount(out[k].word)
    /\ out[Len(out)].end = CharCount(sentence)

\* The tag C8 gives a word that is not a dictionary entry.
TagByClass(w) ==
    LET alnum == {k \in 1..CharCount(w) : IsAsciiAlphanumeric(Chars(w)[k])} IN
    IF alnum = {} THEN "x"
    ELSE IF \A k \in alnum : IsAsciiDigit(Chars(w)[k]) THEN "m"
    ELSE "eng"

\* C8: tag gives each word of cut the tag of its dictionary entry, and a word
\* that is no dictionary entry x, m or eng by its ASCII alphanumerics.
C8_Tags ==
    Done("tag") =>
        /\ Len(out) = Len(words)
        /\ \A k \in 1..Len(out) :
              /\ out[k].word = words[k]
              /\ out[k].tag = IF IsWord(words[k]) THEN EntryOf(words[k]).tag
                              ELSE TagByClass(words[k])

\* The pairs (i, e) of a DAG d, as <<i, e>>.
DagPairs(d) ==
    UNION {{<<i, d[i + 1][k]>> : k \in 1..Len(d[i + 1])} : i \in 0..(Len(d) - 1)}

RECURSIVE SortedPairs(_)
\* The pairs of ps by ascending i and, for equal i, ascending e.
SortedPairs(ps) ==
    IF ps = {} THEN <<>>
    ELSE LET m == CHOOSE x \in ps :
                    \A y \in ps : x[1] < y[1] \/ (x[1] = y[1] /\ x[2] <= y[2])
         IN <<m>> \o SortedPairs(ps \ {m})

\* What C9 says cut_all emits for one Han block.
CutAllExpected(block) ==
    LET d == Dag(block, <<>>)
        ps == SortedPairs(DagPairs(d))
    IN [k \in 1..Len(ps) |-> Slice(block, ps[k][1], ps[k][2])]

\* This step is cut_all's pass over the Matched block NextItem.
CutAllStep ==
    /\ pc = "cut" /\ cutAll /\ NextItem /= None
    /\ Unwrap(NextItem).kind = "Matched"
    /\ splitter' /= splitter

\* C9: for a Han block cut_all emits block[i..e] for every pair (i, e) of the
\* block's DAG, by ascending i and then ascending e, and nothing else.
C9_CutAllEmitsDag ==
    [][CutAllStep => words' = words \o CutAllExpected(Unwrap(NextItem).str)]_vars

\* C9 witness: cut_all has emitted, for one block, two words that start at
\* the same byte (the shorter first) and then a word that starts later.
C9_Witness ==
    /\ op = "cut_all" /\ pc \in {"cut", "done"}
    /\ \E k \in 1..(Len(words) - 2) :
          /\ Len(words[k]) < Len(words[k + 1])
          /\ SubSeq(words[k + 1], 1, Len(words[k])) = words[k]
          /\ Len(words[k + 2]) < Len(words[k + 1])

\* C10: the words cut_all emits for a Han block cover the block: every code
\* point of the block lies inside an occurrence of an emitted word.
C10_CutAllCoversBlock ==
    [][CutAllStep =>
          LET block == Unwrap(NextItem).str
              emitted == SubSeq(words', Len(words) + 1, Len(words'))
          IN \A c \in 1..CharCount(block) :
                LET i == CharIndices(block)[c] IN
                \E k \in 1..Len(emitted), lo \in 0..i :
                    /\ lo + Len(emitted[k]) > i
                    /\ lo + Len(emitted[k]) <= Len(block)
                    /\ Slice(block, lo, lo + Len(emitted[k])) = emitted[k]]_vars

\* A lexicon line with a frequency field that is not a non-negative decimal
\* integer.
Malformed(line) ==
    LET parts == SplitWhitespace(line) IN
    /\ Len(parts) >= 2
    /\ \E k \in 1..Len(parts[2]) : ~IsAsciiDigit(parts[2][k])

\* The lines Jieba::new has read that are not blank, in order.
NonBlankRead ==
    SelectSeq(SubSeq(dict.lines, 1, dict.pos), LAMBDA l : SplitWhitespace(l) /= <<>>)

\* C11: Jieba::new never terminates abnormally; once it has read a malformed
\* line it has stopped with the error value DictionaryError that carries the
\* number of the first such line, and until then every line it has read that
\* is not blank has its record, with frequency 0 if the line gives none.
C11_MalformedLineIsError ==
    LET bad == {k \in 1..dict.pos : Malformed(dict.lines[k])} IN
    /\ pc /= "panic"
    /\ bad /= {} =>
          /\ pc = "error"
          /\ out = [line_number |-> CHOOSE k \in bad : \A j \in bad : k <= j,
                    reason |-> "frequency"]
    /\ (bad = {} /\ pc \in {"new", "idle"}) =>
          /\ Len(records) = Len(NonBlankRead)
          /\ \A k \in 1..Len(records) :
                LET parts == SplitWhitespace(NonBlankRead[k]) IN
                /\ records[k].word = parts[1]
                /\ Len(parts) = 1 => records[k].freq = 0

\* The byte ends e such that s[i..e] is a dictionary word.
WordEnds(s, i) == {e \in (i + 1)..Len(s) : IsWord(Slice(s, i, e))}

\* The sequence l is strictly ascending.
Ascending(l) == \A k \in 1..(Len(l) - 1) : l[k] < l[k + 1]

\* C12: after dag on an empty buffer, dag[i] lists, for every byte start i of
\* the text, exactly the ends e of the dictionary words text[i..e], ascending;
\* every recorded start and end is a code point boundary with i < e <= len.
C12_DagListsWordEnds ==
    Done("dag") =>
        /\ Len(dag) = Len(sentence)
        /\ \A i \in 0..(Len(sentence) - 1) :
              LET ends == dag[i + 1] IN
              /\ Ascending(ends)
              /\ {ends[k] : k \in 1..Len(ends)} = WordEnds(sentence, i)
              /\ ends /= <<>> => IsCharBoundary(sentence, i)
              /\ \A k \in 1..Len(ends) :
                    /\ IsCharBoundary(sentence, ends[k])
                    /\ i < ends[k] /\ ends[k] <= Len(sentence)

\* C12 witness: dag has returned a DAG in which one start has two ends, a
\* later start has an end too, and a byte inside a code point has none.
C12_Witness ==
    /\ Done("dag")
    /\ \E i, j \in 0..(Len(sentence) - 1) :
          /\ i < j /\ Len(dag[i + 1]) = 2 /\ dag[j + 1] /= <<>>
    /\ \E i \in 0..(Len(sentence) - 1) :
          ~IsCharBoundary(sentence, i) /\ dag[i + 1] = <<>>

\* The ends of the steps a path can take from byte start i of the text calc
\* ran on: the ends in dag[i] or, only when dag[i] is empty, the next code
\* point start.
DagSteps(i) ==
    IF dag[i + 1] /= <<>> THEN {dag[i + 1][k] : k \in 1..Len(dag[i + 1])}
    ELSE {i + Width(sentence[i + 1])}

RECURSIVE DagPathsFrom(_)
\* The paths through the DAG from byte start i to the end of the text.
DagPathsFrom(i) ==
    IF i >= Len(sentence) THEN {<<i>>}
    ELSE UNION {{<<i>> \o p : p \in DagPathsFrom(e)} : e \in DagSteps(i)}

RECURSIVE RoutePath(_, _)
\* The path the next pointers of route give from x, of at most fuel steps.
RoutePath(x, fuel) ==
    IF x >= Len(sentence) \/ x < 0 \/ fuel = 0 THEN <<x>>
    ELSE <<x>> \o RoutePath(route[x + 1][2], fuel - 1)

\* a == b as f64 compares them.
FEq(a, b) == FPartialCmp(a, b) = Some("Equal")

\* m is the maximum of the scores S: one of them, and none is greater.
IsMaxOf(m, S) ==
    /\ \E x \in S : FEq(x, m)
    /\ \A x \in S : FPartialCmp(x, m) \in {Some("Less"), Some("Equal")}

\* route is a maximum-probability route of the text calc ran on.
RouteIsMaximum ==
    \A c \in 1..CharCount(sentence) :
        LET i == CharIndices(sentence)[c]
            path == RoutePath(i, Len(sentence))
        IN /\ IsMaxOf(route[i + 1][1],
                      {PathScore(sentence, p) : p \in DagPathsFrom(i)})
           /\ path \in DagPathsFrom(i)
           /\ FEq(PathScore(sentence, path), route[i + 1][1])

\* C13 as stated: after calc, for every code point start i, route[i].0 is the
\* maximum over the DAG's paths from i to the end of the sum of ln(freq) -
\* ln(total), and the next pointers from i follow a path that attains it.
C13_RouteIsMaximum == Done("calc") => RouteIsMaximum

\* C13 amended: the same, for a dictionary whose frequencies are not all 0.
C13_RouteIsMaximumPositiveTotal == (Done("calc") /\ total > 0) => RouteIsMaximum

\* C13 witness: calc has run, with a positive total, on a text with paths of
\* different scores from its start, and the route's first step is not the
\* longest one.
C13_Witness ==
    /\ Done("calc") /\ total > 0
    /\ \E p, q \in DagPathsFrom(0) :
          FPartialCmp(PathScore(sentence, p), PathScore(sentence, q)) = Some("Less")
    /\ \E e \in DagSteps(0) : e > route[1][2]
    /\ RouteIsMaximum

\* The frequency of the step over w: that of the dictionary word w, or 1.
FreqOf(w) == IF IsWord(w) THEN EntryOf(w).freq ELSE 1

\* The score ln(freq) - logtotal + route[e].0 of the end e of dag[i].
EndScore(i, e) ==
    FAdd(SubLogTotal(Ln(FreqOf(Slice(sentence, i, e)))), route[e + 1][1])

\* The ends of dag[i] whose score is the maximum of the scores of dag[i].
BestEnds(i) ==
    LET ends == {dag[i + 1][k] : k \in 1..Len(dag[i + 1])} IN
    {e \in ends : IsMaxOf(EndScore(i, e), {EndScore(i, x) : x \in ends})}

\* C14: after calc, at every code point start i where two or more ends of
\* dag[i] share the maximum score, route[i].1 is the largest of them.
C14_TieTakesLargerEnd ==
    Done("calc") =>
        \A c \in 1..CharCount(sentence) :
            LET i == CharIndices(sentence)[c] IN
            Cardinality(BestEnds(i)) >= 2 =>
                /\ route[i + 1][2] \in BestEnds(i)
                /\ \A e \in BestEnds(i) : e <= route[i + 1][2]

\* C14 witness: calc has run on a text where two ends of dag[0] share the
\* maximum score, a finite one, and route[0].1 is the larger.
C14_Witness ==
    /\ Done("calc")
    /\ Cardinality(BestEnds(0)) = 2
    /\ route[1][1].k = "fin"
    /\ \A e \in BestEnds(0) : e <= route[1][2]

\* C15: after calc on a block of byte length L, route[i].1 is, for every code
\* point start i, a code point boundary with i < route[i].1 <= L, so the walk
\* x := route[x].1 from 0 strictly increases, stays on code point boundaries
\* and ends with x = L.
C15_WalkTerminates ==
    Done("calc") =>
        LET L == Len(sentence)
            walk == RoutePath(0, L)
        IN /\ Len(route) = L + 1
           /\ \A c \in 1..CharCount(sentence) :
                 LET i == CharIndices(sentence)[c] IN
                 /\ IsCharBoundary(sentence, route[i + 1][2])
                 /\ i < route[i + 1][2] /\ route[i + 1][2] <= L
           /\ \A k \in 1..(Len(walk) - 1) : walk[k] < walk[k + 1]
           /\ \A k \in 1..Len(walk) :
                 walk[k] >= 0 /\ walk[k] <= L /\ IsCharBoundary(sentence, walk[k])
           /\ walk[Len(walk)] = L

\* C15 witness: calc has run on a block with a code point of several bytes,
\* and the walk from 0 takes a step over a dictionary word of two code points
\* and a step from a start that has no end in the DAG.
C15_Witness ==
    /\ Done("calc")
    /\ Len(sentence) > CharCount(sentence)
    /\ LET walk == RoutePath(0, Len(sentence)) IN
       /\ walk[Len(walk)] = Len(sentence)
       /\ \E k \in 1..(Len(walk) - 1) :
             CharCount(Slice(sentence, walk[k], walk[k + 1])) = 2
       /\ \E k \in 1..(Len(walk) - 1) : dag[walk[k] + 1] = <<>>

\* This step is cut_internal's pass over the Han-like block NextItem with
\* cut_dag_no_hmm or cut_dag_hmm.
CutDagStep ==
    /\ pc = "cut" /\ ~cutAll /\ NextItem /= None
    /\ Unwrap(NextItem).kind = "Matched"
    /\ splitter' /= splitter

\* The words of a block cut on its own: on empty words and empty buffers.
CutAlone(block, h) ==
    IF h
    THEN {CutDagHmm(block, <<>>, <<>>, <<>>, breaks).words :
            breaks \in SUBSET (1..(CharCount(block) - 1))}
    ELSE {CutDagNoHmm(block, <<>>, <<>>, <<>>).words}

\* C16: in a cut call, dag and route are empty when the processing of each
\* Han-like block begins and when it ends, and the words emitted for the
\* block are those of the block cut on its own.
C16_BuffersDoNotLeak ==
    [][CutDagStep =>
          /\ dag = <<>> /\ route = <<>>
          /\ dag' = <<>> /\ route' = <<>>
          /\ \E ws \in CutAlone(Unwrap(NextItem).str, hmm) : words' = words \o ws]_vars

\* The items the default splitter gives for s.
DefaultItems(s) == SplitAll(SplitMatchesNew("RE_HAN_DEFAULT", s))

\* C16 witness: cut without hmm has returned the words of an input with two
\* Han-like blocks, the first a dictionary word of more bytes than the second
\* block has, and the words are those of its blocks cut on their own.
C16_Witness ==
    /\ Done("cut") /\ ~hmm
    /\ LET items == DefaultItems(sentence) IN
       /\ Len(items) = 3
       /\ items[1].kind = "Matched" /\ items[3].kind = "Matched"
       /\ IsWord(items[1].str)
       /\ Len(items[1].str) > Len(items[3].str)
       /\ out = CutDagNoHmm(items[1].str, <<>>, <<>>, <<>>).words
                  \o CutUnmatched(items[2].str, FALSE, <<>>)
                  \o CutDagNoHmm(items[3].str, <<>>, <<>>, <<>>).words

RECURSIVE StepsFromRoute(_, _, _)
\* The route steps of the block s from byte offset x: the texts s[x..y] for
\* y = r[x].1, in order.
StepsFromRoute(s, r, x) ==
    IF x >= Len(s) THEN <<>>
    ELSE <<Slice(s, x, r[x + 1][2])>> \o StepsFromRoute(s, r, r[x + 1][2])

\* The route steps of the block s cut on empty buffers.
RouteSteps(s) == StepsFromRoute(s, Calc(s, Dag(s, <<>>), <<>>), 0)

\* w is a single ASCII alphanumeric character.
SingleAlnum(w) == Len(w) = 1 /\ IsAsciiAlphanumeric(w[1])

RECURSIVE MergeAlnumRuns(_, _)
\* The steps with every maximal run of single ASCII alphanumerics made one
\* word; pending is the run that is open.
MergeAlnumRuns(steps, pending) ==
    LET flushed == IF pending = <<>> THEN <<>> ELSE <<pending>> IN
    IF steps = <<>> THEN flushed
    ELSE IF SingleAlnum(Head(steps))
    THEN MergeAlnumRuns(Tail(steps), pending \o Head(steps))
    ELSE flushed \o <<Head(steps)>> \o MergeAlnumRuns(Tail(steps), <<>>)

\* C17: for one block cut_dag_no_hmm emits every maximal run of route steps
\* that are single ASCII alphanumerics as one word and every other route
\* step as its own word, so no two adjacent words of the block are both
\* single ASCII alphanumeric characters.
C17_AlnumRunsAreMerged ==
    [][(CutDagStep /\ ~hmm) =>
          LET emitted == SubSeq(words', Len(words) + 1, Len(words')) IN
          /\ emitted = MergeAlnumRuns(RouteSteps(Unwrap(NextItem).str), <<>>)
          /\ \A k \in 1..(Len(emitted) - 1) :
                ~(SingleAlnum(emitted[k]) /\ SingleAlnum(emitted[k + 1]))]_vars

\* C17 witness: cut without hmm has returned two words for a block of three
\* route steps: a run of two single ASCII alphanumerics as one word, before
\* or after a step that is not one.
C17_Witness ==
    /\ Done("cut") /\ ~hmm /\ OneHanBlock(sentence)
    /\ Len(RouteSteps(sentence)) = 3
    /\ Len(out) = 2
    /\ \E k \in 1..2 : CharCount(out[k]) = 2 /\ ~IsWord(out[k])
                          /\ \A j \in 1..2 : IsAsciiAlphanumeric(out[k][j])

RECURSIVE GroupRuns(_, _)
\* The steps with every maximal run of single-code-point steps made one item
\* [run |-> TRUE]; every other step is an item [run |-> FALSE].  pending is
\* the run that is open.
GroupRuns(steps, pending) ==
    LET flushed == IF pending = <<>> THEN <<>>
                   ELSE <<[run |-> TRUE, str |-> pending]>>
    IN IF steps = <<>> THEN flushed
       ELSE IF CharCount(Head(steps)) = 1
       THEN GroupRuns(Tail(steps), pending \o Head(steps))
       ELSE flushed \o <<[run |-> FALSE, str |-> Head(steps)]>>
            \o GroupRuns(Tail(steps), <<>>)

RECURSIVE Partitions(_)
\* The ways to cut w into consecutive words of whole code points.
Partitions(w) ==
    IF w = <<>> THEN {<<>>}
    ELSE UNION {{<<Slice(w, 0, e)>> \o p : p \in Partitions(Slice(w, e, Len(w)))} :
                    e \in {x \in 1..Len(w) : IsCharBoundary(w, x)}}

\* A run goes to HMM Viterbi: it has two or more code points and is not a
\* dictionary word.
GoesToHmm(item) == item.run /\ CharCount(item.str) >= 2 /\ ~IsWord(item.str)

\* The words C18 allows for one item: a step or a run of one code point as
\* it is, a run for Viterbi cut in any way, a run that is a dictionary word
\* code point by code point.
ItemWords(item) ==
    IF ~item.run \/ CharCount(item.str) = 1 THEN {<<item.str>>}
    ELSE IF GoesToHmm(item) THEN Partitions(item.str)
    ELSE {[k \in 1..CharCount(item.str) |-> Encode(<<Chars(item.str)[k]>>)]}

RECURSIVE ItemsWords(_)
\* The words C18 allows for the items of a block.
ItemsWords(items) ==
    IF items = <<>> THEN {<<>>}
    ELSE {a \o b : a \in ItemWords(Head(items)), b \in ItemsWords(Tail(items))}

\* C18: for one block cut_dag_hmm passes to HMM Viterbi exactly the maximal
\* runs of single-code-point route steps that have two or more code points
\* and are not dictionary words; it emits a run of one code point as one
\* word and a run that is a dictionary word code point by code point.
C18_HmmRuns ==
    [][(CutDagStep /\ hmm) =>
          LET items == GroupRuns(RouteSteps(Unwrap(NextItem).str), <<>>)
              runs == SelectSeq(items, GoesToHmm)
          IN /\ hmmCalls' = hmmCalls \o [k \in 1..Len(runs) |-> runs[k].str]
             /\ \E ws \in ItemsWords(items) : words' = words \o ws]_vars

\* C19: no item a splitter gives is empty, be it Matched or Unmatched, for
\* any text and any of the four regular expressions; so the blocks
\* cut_internal asserts to be non-empty are.
C19_NoEmptyBlock ==
    /\ op = "split" => \A k \in 1..Len(out) : out[k].str /= <<>>
    /\ (pc \in {"cut", "split"} /\ NextItem /= None) => Unwrap(NextItem).str /= <<>>

\* C19 witness: a loop over a splitter has ended after a Matched item, a
\* Matched item that starts where the first ended, and an Unmatched item at
\* the end of the text.
C19_Witness ==
    /\ Done("split")
    /\ Len(out) = 3
    /\ out[1].kind = "Matched" /\ out[2].kind = "Matched" /\ out[3].kind = "Unmatched"
    /\ Concat([k \in 1..3 |-> out[k].str]) = sentence

====
